---------------------------- MODULE Spec2Model ----------------------------
(***************************************************************************)
(* Model of newspaper/utils.py: the timelimit decorator (a worker thread   *)
(* joined with a timeout), the module-level store connection, the          *)
(* memoize_articles filter and URLHelper.get_parsing_candidate.            *)
(***************************************************************************)
EXTENDS Integers, Sequences, FiniteSets, TLC

VARIABLES
    pc,        \* per timelimit call: position of the calling thread in _2
    fn,        \* per call: the wrapped function's behaviour
    thread,    \* per call: state of the Dispatch thread
    result,    \* Dispatch.result, per Dispatch object
    error,     \* Dispatch.error, per Dispatch object
    joined,    \* per call: how c.join(timeout) came back
    outcome,   \* per call: what _2 gave its caller
    conn,      \* the module-level connection (utils.conn)
    urls,      \* href column of the rows of table urls
    last       \* the last call of memoize_articles / get_parsing_candidate

guardVars == <<pc, fn, thread, result, error, joined, outcome>>
dedupVars == <<conn, urls, last>>
vars == <<pc, fn, thread, result, error, joined, outcome, conn, urls, last>>

(***************************************************************************)
(* Bounds                                                                  *)
(***************************************************************************)
MaxCalls == 2
MaxBatch == 3

Calls == 1..MaxCalls

None == "None"

\* the record of a call of memoize_articles or get_parsing_candidate
NoCand == [url |-> <<>>, digest |-> <<>>, time |-> 0]

NoText == [type |-> "-", chars |-> <<>>]

NoCall == [op |-> "-", articles |-> <<>>, text |-> NoText, kind |-> "-",
           collapsed |-> <<>>, val |-> <<>>, cand |-> NoCand, cls |-> "-"]

(***************************************************************************)
(* Exceptions.  An exception instance has a class, an identity and the     *)
(* identity of the instance it was constructed from (<<>> when none).      *)
(***************************************************************************)
NoExc == [cls |-> "-", id |-> <<>>, wraps |-> <<>>]

\* classes whose constructor accepts a single positional argument
OneArgCtor == {"KeyError", "TimeoutError", "TypeError", "AttributeError"}

ExcClasses == {"KeyError", "UnicodeDecodeError"}

\* class TimeoutError(Exception): pass, raised with no arguments
TimeoutError(i) == [cls |-> "TimeoutError", id |-> <<"guard", i>>, wraps |-> <<>>]

\* the behaviours of a wrapped function: return a value, raise, never return
Functions ==
    [kind : {"ok"}, val : {None, "v1"}, cls : {"-"}]
      \cup [kind : {"err"}, val : {None}, cls : ExcClasses]
      \cup [kind : {"hang"}, val : {None}, cls : {"-"}]

NoFn == [kind |-> "-", val |-> None, cls |-> "-"]

\* the instance raised inside the worker of call i
Raised(i) == [cls |-> fn[i].cls, id |-> <<"op", i>>, wraps |-> <<>>]

\* sys.exc_info(): (type, value, traceback)
ExcInfo(e) == <<e.cls, e>>

\* self.error = None
NoError == <<None, NoExc>>

NoOutcome == [kind |-> "-", val |-> None, exc |-> NoExc]
Return(v) == [kind |-> "return", val |-> v, exc |-> NoExc]
Raise(e) == [kind |-> "raise", val |-> None, exc |-> e]

\* raise c.error[0](c.error[1]): a new instance of the class, built from the
\* caught instance; a constructor that needs other arguments fails
Reraise(i, err) ==
    IF err[1] \in OneArgCtor
    THEN [cls |-> err[1], id |-> <<"guard", i>>, wraps |-> err[2].id]
    ELSE [cls |-> "TypeError", id |-> <<"guard", i>>, wraps |-> <<>>]

\* the tail of _2: isAlive, error, result
DeliverNoTimeout(i, alive, err, res) ==
    IF err # NoError THEN Raise(Reraise(i, err)) ELSE Return(res)

DeliverTruthy(i, alive, err, res) ==
    IF alive \/ res = None THEN Raise(TimeoutError(i))
    ELSE IF err # NoError THEN Raise(Reraise(i, err))
    ELSE Return(res)

Deliver(i, alive, err, res) ==
    IF alive THEN Raise(TimeoutError(i))
    ELSE IF err # NoError THEN Raise(Reraise(i, err))
    ELSE Return(res)

\* the Dispatch object of call i: one per call of _2
\* one Dispatch object shared by every call
SharedSlot(i) == CHOOSE c \in Calls : \A d \in Calls : c <= d

SlotOf(i) == i

(***************************************************************************)
(* timelimit                                                               *)
(***************************************************************************)
\* _2 is entered: c = Dispatch() sets the slots and starts the thread
Invoke(i) ==
    /\ pc[i] = "idle"
    /\ \E f \in Functions : fn' = [fn EXCEPT ![i] = f]
    /\ result' = [result EXCEPT ![SlotOf(i)] = None]
    /\ error' = [error EXCEPT ![SlotOf(i)] = NoError]
    /\ thread' = [thread EXCEPT ![i] = "running"]
    /\ pc' = [pc EXCEPT ![i] = "join"]
    /\ UNCHANGED <<joined, outcome>>
    /\ UNCHANGED dedupVars

\* Dispatch.run: the function returns or raises, then the thread ends
Run(i) ==
    /\ thread[i] = "running"
    /\ fn[i].kind # "hang"
    /\ IF fn[i].kind = "ok"
       THEN /\ result' = [result EXCEPT ![SlotOf(i)] = fn[i].val]
            /\ UNCHANGED error
       ELSE /\ error' = [error EXCEPT ![SlotOf(i)] = ExcInfo(Raised(i))]
            /\ UNCHANGED result
    /\ thread' = [thread EXCEPT ![i] = "finished"]
    /\ UNCHANGED <<pc, fn, joined, outcome>>
    /\ UNCHANGED dedupVars

\* c.join(timeout) comes back because the thread has ended
JoinFinished(i) ==
    /\ pc[i] = "join"
    /\ thread[i] = "finished"
    /\ joined' = [joined EXCEPT ![i] = "finished"]
    /\ pc' = [pc EXCEPT ![i] = "check"]
    /\ UNCHANGED <<fn, thread, result, error, outcome>>
    /\ UNCHANGED dedupVars

\* c.join(timeout) comes back because timeout seconds have passed
JoinTimeout(i) ==
    /\ pc[i] = "join"
    /\ thread[i] = "running"
    /\ joined' = [joined EXCEPT ![i] = "timeout"]
    /\ pc' = [pc EXCEPT ![i] = "check"]
    /\ UNCHANGED <<fn, thread, result, error, outcome>>
    /\ UNCHANGED dedupVars

\* Check that also stops the worker
CheckKill(i) ==
    /\ pc[i] = "check"
    /\ outcome' = [outcome EXCEPT ![i] =
           Deliver(i, thread[i] = "running", error[SlotOf(i)], result[SlotOf(i)])]
    /\ thread' = [thread EXCEPT ![i] =
           IF thread[i] = "running" THEN "killed" ELSE thread[i]]
    /\ pc' = [pc EXCEPT ![i] = "done"]
    /\ UNCHANGED <<fn, result, error, joined>>
    /\ UNCHANGED dedupVars

\* if c.isAlive(): raise ... if c.error: raise ... return c.result
Check(i) ==
    /\ pc[i] = "check"
    /\ outcome' = [outcome EXCEPT ![i] =
           Deliver(i, thread[i] = "running", error[SlotOf(i)], result[SlotOf(i)])]
    /\ pc' = [pc EXCEPT ![i] = "done"]
    /\ UNCHANGED <<fn, thread, result, error, joined>>
    /\ UNCHANGED dedupVars

InitGuardVars ==
    /\ pc = [i \in Calls |-> "idle"]
    /\ fn = [i \in Calls |-> NoFn]
    /\ thread = [i \in Calls |-> "none"]
    /\ result = [i \in Calls |-> None]
    /\ error = [i \in Calls |-> NoError]
    /\ joined = [i \in Calls |-> "-"]
    /\ outcome = [i \in Calls |-> NoOutcome]

InitGuard ==
    /\ InitGuardVars
    /\ conn = None
    /\ urls = {}
    /\ last = NoCall

NextGuard ==
    \E i \in Calls :
        \/ Invoke(i)
        \/ Run(i)
        \/ JoinFinished(i)
        \/ JoinTimeout(i)
        \/ Check(i)

SpecGuard == InitGuard /\ [][NextGuard]_vars

\* the calling thread and a worker whose function ends are both scheduled
FairGuard ==
    /\ InitGuard
    /\ [][NextGuard]_vars
    /\ \A i \in Calls : WF_vars(JoinFinished(i) \/ JoinTimeout(i))
    /\ \A i \in Calls : WF_vars(Check(i))
    /\ \A i \in Calls : WF_vars(Run(i))

(***************************************************************************)
(* Strings are sequences of one-character strings.                         *)
(***************************************************************************)
MinOf(S) == CHOOSE k \in S : \A m \in S : k <= m
MaxOf(S) == CHOOSE k \in S : \A m \in S : k >= m

\* str.find(c, from): the first position of c at or after from, 0 when absent
Find(s, c, from) ==
    LET idx == {k \in from..Len(s) : s[k] = c}
    IN IF idx = {} THEN 0 ELSE MinOf(idx)

\* str.rfind(c)
RFind(s, c) ==
    LET idx == {k \in 1..Len(s) : s[k] = c}
    IN IF idx = {} THEN 0 ELSE MaxOf(idx)

\* the first position at or after from of any character of cs, 0 when absent
FindAny(s, cs, from) ==
    LET idx == {k \in from..Len(s) : s[k] \in cs}
    IN IF idx = {} THEN 0 ELSE MinOf(idx)

StartsWithAt(s, k, old) ==
    /\ k + Len(old) - 1 <= Len(s)
    /\ \A m \in 1..Len(old) : s[k + m - 1] = old[m]

\* old in s
Contains(s, old) == \E k \in 1..Len(s) : StartsWithAt(s, k, old)

\* str.replace(old, new): every occurrence, left to right, not overlapping
RECURSIVE ReplaceFrom(_, _, _, _)
ReplaceFrom(s, k, old, new) ==
    IF k > Len(s) THEN <<>>
    ELSE IF StartsWithAt(s, k, old)
         THEN new \o ReplaceFrom(s, k + Len(old), old, new)
         ELSE <<s[k]>> \o ReplaceFrom(s, k + 1, old, new)

Replace(s, old, new) == ReplaceFrom(s, 1, old, new)

SHEBANG == <<"#", "!">>
ESCAPED == <<"?", "_", "e", "s", "c", "a", "p", "e", "d", "_",
             "f", "r", "a", "g", "m", "e", "n", "t", "_", "=">>

(***************************************************************************)
(* urlparse                                                                *)
(***************************************************************************)
SchemeChars == {"a", "b", "e", "h", "p", "q", "t", "x", "+", "-", "."}

\* schemes of urllib.parse.uses_params that the modelled URLs can carry
UsesParams == {<<>>, <<"h", "t", "t", "p">>}

\* urlsplit without the cut at '#': the fragment stays in the path
UrlSplitNoFragment(url) ==
    LET i == Find(url, ":", 1)
        isScheme == i > 1 /\ \A k \in 1..(i - 1) : url[k] \in SchemeChars
        r0 == IF isScheme THEN SubSeq(url, i + 1, Len(url)) ELSE url
        hasNet == Len(r0) >= 2 /\ r0[1] = "/" /\ r0[2] = "/"
        d == FindAny(r0, {"/", "?", "#"}, 3)
        delim == IF d = 0 THEN Len(r0) + 1 ELSE d
        r1 == IF hasNet THEN SubSeq(r0, delim, Len(r0)) ELSE r0
        q == Find(r1, "?", 1)
    IN [scheme |-> IF isScheme THEN SubSeq(url, 1, i - 1) ELSE <<>>,
        netloc |-> IF hasNet THEN SubSeq(r0, 3, delim - 1) ELSE <<>>,
        path |-> IF q = 0 THEN r1 ELSE SubSeq(r1, 1, q - 1),
        query |-> IF q = 0 THEN <<>> ELSE SubSeq(r1, q + 1, Len(r1)),
        fragment |-> <<>>]

\* urlsplit: scheme, then netloc after '//', then fragment, then query
UrlSplit(url) ==
    LET i == Find(url, ":", 1)
        isScheme == i > 1 /\ \A k \in 1..(i - 1) : url[k] \in SchemeChars
        r0 == IF isScheme THEN SubSeq(url, i + 1, Len(url)) ELSE url
        hasNet == Len(r0) >= 2 /\ r0[1] = "/" /\ r0[2] = "/"
        d == FindAny(r0, {"/", "?", "#"}, 3)
        delim == IF d = 0 THEN Len(r0) + 1 ELSE d
        r1 == IF hasNet THEN SubSeq(r0, delim, Len(r0)) ELSE r0
        f == Find(r1, "#", 1)
        r2 == IF f = 0 THEN r1 ELSE SubSeq(r1, 1, f - 1)
        q == Find(r2, "?", 1)
    IN [scheme |-> IF isScheme THEN SubSeq(url, 1, i - 1) ELSE <<>>,
        netloc |-> IF hasNet THEN SubSeq(r0, 3, delim - 1) ELSE <<>>,
        path |-> IF q = 0 THEN r2 ELSE SubSeq(r2, 1, q - 1),
        query |-> IF q = 0 THEN <<>> ELSE SubSeq(r2, q + 1, Len(r2)),
        fragment |-> IF f = 0 THEN <<>> ELSE SubSeq(r1, f + 1, Len(r1))]

\* _splitparams: cut the path at the first ';' of its last segment
SplitParams(path) ==
    LET i == IF Find(path, "/", 1) # 0
             THEN Find(path, ";", RFind(path, "/"))
             ELSE Find(path, ";", 1)
    IN IF i = 0 THEN path ELSE SubSeq(path, 1, i - 1)

\* urlparse(url): urlsplit, then the params leave the path
UrlParse(url) ==
    LET u == UrlSplit(url)
    IN IF u.scheme \in UsesParams /\ Find(u.path, ";", 1) # 0
       THEN [u EXCEPT !.path = SplitParams(u.path)]
       ELSE u

\* an href that keeps a query string
HrefWithQuery(u) ==
    IF u.query = <<>> THEN u.netloc \o u.path
    ELSE u.netloc \o u.path \o <<"?">> \o u.query

\* f'{u.netloc}{u.path}'
Href(u) == u.netloc \o u.path

\* SELECT id FROM urls WHERE href = %s; fetchone() != None
Exists(url, table) == Href(UrlParse(url)) \in table

(***************************************************************************)
(* The URLs and articles of the model                                      *)
(***************************************************************************)
HTTP == <<"h", "t", "t", "p", ":", "/", "/">>

\* URLs given to the two operations, before their escaped-fragment forms
BaseUrls ==
    { HTTP \o <<"h", "/", "a">>,
      HTTP \o <<"h", "/", "a", "?", "q">>,
      HTTP \o <<"h", "/", "a", "#", "!", "p">>,
      HTTP \o <<"h", "/", "a", ";", "x">>,
      HTTP \o <<"h", "/", "b">>,
      <<"h", "/", "b", "#", "!", "p">> }

Urls == BaseUrls \cup {Replace(u, SHEBANG, ESCAPED) : u \in BaseUrls}

Payloads == {1, 2}

\* an article: its url and the rest of the object
Articles == [url : Urls, payload : Payloads]

RECURSIVE SeqsUpTo(_, _)
SeqsUpTo(S, n) ==
    IF n = 0 THEN {<<>>}
    ELSE LET shorter == SeqsUpTo(S, n - 1)
         IN shorter \cup {Append(q, x) : q \in shorter, x \in S}

Batches == SeqsUpTo(Articles, MaxBatch)

\* the values the href column can hold
Hrefs == {<<"h", "/", "a">>, <<"h", "/", "b">>}

Texts == [type : {"str", "bytes"}, chars : Urls]

Times == {1, 2}

Range(q) == {q[k] : k \in DOMAIN q}

(***************************************************************************)
(* db_connect, memoize_articles, URLHelper.get_parsing_candidate           *)
(***************************************************************************)
\* db_connect: the connection, or None when db() or connect() raised
DbConnect(ok) == IF ok THEN "connection" ELSE None

\* a dict assignment that keeps the value already present
DictPutFirst(d, a) ==
    IF \E k \in DOMAIN d : d[k].url = a.url THEN d ELSE Append(d, a)

\* current_articles[article.url] = article: a new key goes last, a key
\* already present keeps its place and takes the new value
DictPut(d, a) ==
    IF \E k \in DOMAIN d : d[k].url = a.url
    THEN [k \in DOMAIN d |-> IF d[k].url = a.url THEN a ELSE d[k]]
    ELSE Append(d, a)

\* {article.url: article for article in articles}, as the list of its values
RECURSIVE Collapse(_)
Collapse(articles) ==
    IF articles = <<>> THEN <<>>
    ELSE DictPut(Collapse(SubSeq(articles, 1, Len(articles) - 1)),
                 articles[Len(articles)])

\* memoize_articles(source, articles) with connection c and table urls
MemoizeArticles(c, table, articles) ==
    IF Len(articles) = 0
    THEN [NoCall EXCEPT !.op = "memoize", !.kind = "return"]
    ELSE LET current == Collapse(articles)
         IN IF c = None
            THEN [NoCall EXCEPT !.op = "memoize", !.articles = articles,
                                !.collapsed = current,
                                !.kind = "raise", !.cls = "AttributeError"]
            ELSE [NoCall EXCEPT !.op = "memoize", !.articles = articles,
                                !.collapsed = current,
                                !.kind = "return",
                                !.val = SelectSeq(current,
                                            LAMBDA a : ~Exists(a.url, table))]

\* hashlib.md5(data) takes bytes; a str raises TypeError
Md5Accepts(data) == data.type = "bytes"

\* URLHelper.get_parsing_candidate(url_to_crawl) at time t
GetParsingCandidate(text, t) ==
    IF text.type # "str"
    THEN [NoCall EXCEPT !.op = "candidate", !.text = text,
                        !.kind = "raise", !.cls = "TypeError"]
    ELSE LET final_url == IF Contains(text.chars, SHEBANG)
                          THEN Replace(text.chars, SHEBANG, ESCAPED)
                          ELSE text.chars
         IN IF Md5Accepts([type |-> "str", chars |-> final_url])
            THEN [NoCall EXCEPT !.op = "candidate", !.text = text,
                                !.kind = "return",
                                !.cand = [url |-> final_url,
                                          digest |-> final_url, time |-> t]]
            ELSE [NoCall EXCEPT !.op = "candidate", !.text = text,
                                !.kind = "raise", !.cls = "TypeError"]

\* No call changes conn or the table, so a behaviour makes one call: every
\* call a longer behaviour could make is the first call of another one.
Memoize ==
    /\ last = NoCall
    /\ \E articles \in Batches :
           last' = MemoizeArticles(conn, urls, articles)
    /\ UNCHANGED <<conn, urls>>
    /\ UNCHANGED guardVars

Candidate ==
    /\ last = NoCall
    /\ \E text \in Texts, t \in Times : last' = GetParsingCandidate(text, t)
    /\ UNCHANGED <<conn, urls>>
    /\ UNCHANGED guardVars

\* the module has been imported: conn = db_connect() has run
InitDedup ==
    /\ InitGuardVars
    /\ \E ok \in BOOLEAN : conn = DbConnect(ok)
    /\ urls \in SUBSET Hrefs
    /\ last = NoCall

NextDedup == Memoize \/ Candidate

SpecDedup == InitDedup /\ [][NextDedup]_vars

(***************************************************************************)
(* Properties of timelimit                                                 *)
(***************************************************************************)
TimedOut(i) == outcome[i] = Raise(TimeoutError(i))

\* C1: a function that returned before the join timed out has exactly its
\* return value (None included) given to the caller, never TimeoutError.
C1_ResultUnchanged ==
    \A i \in Calls :
        (pc[i] = "done" /\ fn[i].kind = "ok" /\ joined[i] = "finished")
            => outcome[i] = Return(fn[i].val)

C1_Witness ==
    \E i \in Calls :
        /\ pc[i] = "done" /\ fn[i].kind = "ok" /\ joined[i] = "finished"
        /\ fn[i].val = None
        /\ outcome[i] = Return(None)

\* C2: a function that raised before the join timed out has the very
\* instance it raised (same identity, same class) raised to the caller.
C2_SameError ==
    \A i \in Calls :
        (pc[i] = "done" /\ fn[i].kind = "err" /\ joined[i] = "finished")
            => outcome[i] = Raise(Raised(i))

C4_WorkerNotCancelled ==
    /\ [][\A i \in Calls :
            (outcome'[i].exc.cls = "TimeoutError") =>
                /\ thread'[i] \in {"running", "finished"}
                /\ thread[i] = "finished" => thread'[i] = "finished"
                /\ outcome[i].exc.cls = "TimeoutError" =>
                       (outcome'[i] = outcome[i] /\ pc'[i] = "done")]_vars
    /\ \A i \in Calls :
           (TimedOut(i) /\ fn[i].kind # "hang") ~> (thread[i] = "finished")

C4_Witness ==
    \E i \in Calls :
        /\ TimedOut(i)
        /\ thread[i] = "finished"
        /\ fn[i].kind = "ok" /\ fn[i].val # None
        /\ result[SlotOf(i)] = fn[i].val

\* C10: what a call gives its caller comes from its own function only: its
\* own return value, its own error re-raised, or its own TimeoutError.
OwnOutcomes(i) ==
    {Raise(TimeoutError(i))}
      \cup (IF fn[i].kind = "ok" THEN {Return(fn[i].val)} ELSE {})
      \cup (IF fn[i].kind = "err"
            THEN {Raise(Reraise(i, ExcInfo(Raised(i))))} ELSE {})

C10_OwnOutcome ==
    \A i \in Calls : pc[i] = "done" => outcome[i] \in OwnOutcomes(i)

C10_Witness ==
    \E i, j \in Calls :
        /\ i # j
        /\ pc[i] = "done" /\ pc[j] = "done"
        /\ TimedOut(i) /\ thread[i] = "finished" /\ fn[i].kind = "ok"
        /\ fn[j].kind = "ok" /\ fn[j].val # fn[i].val
        /\ outcome[j] = Return(fn[j].val)

(***************************************************************************)
(* Properties of memoize_articles and get_parsing_candidate               *)
(***************************************************************************)
\* the part of s before its first character of cs
CutAt(s, cs) ==
    LET k == FindAny(s, cs, 1)
    IN IF k = 0 THEN s ELSE SubSeq(s, 1, k - 1)

StripScheme(url) ==
    IF StartsWithAt(url, 1, HTTP) THEN SubSeq(url, Len(HTTP) + 1, Len(url))
    ELSE url

\* the url without scheme, query string and fragment
HostPath(url) == CutAt(StripScheme(url), {"?", "#"})

\* the same, also without the ;parameters of the last path segment
HostPathNoParams(url) ==
    LET hp == HostPath(url)
        k == Find(hp, ";", IF RFind(hp, "/") = 0 THEN 1 ELSE RFind(hp, "/"))
    IN IF k = 0 THEN hp ELSE SubSeq(hp, 1, k - 1)

\* the articles of a batch that no later article of the same url follows
LastOccurrences(batch) ==
    {batch[k] : k \in {n \in DOMAIN batch :
                          \A m \in DOMAIN batch :
                              m > n => batch[m].url # batch[n].url}}

NoSharedUrl(q) ==
    \A k, m \in DOMAIN q : q[k].url = q[m].url => k = m

MemoizeReturned == last.op = "memoize" /\ last.kind = "return"

\* C5 as stated: with a connection, the call returns exactly the articles
\* of the batch whose url, without scheme, query string and fragment, is
\* the href of no row.
C5_ExactlyNovel ==
    (last.op = "memoize" /\ conn # None) =>
        /\ last.kind = "return"
        /\ Range(last.val) =
               {a \in Range(last.articles) : HostPath(a.url) \notin urls}

\* C5 as amended: with a connection, the call returns exactly the articles
\* left by the collapse (the last one of each url) whose url, without
\* scheme, query string, fragment and ;parameters, is the href of no row.
C5_NovelOfCollapsed ==
    (last.op = "memoize" /\ conn # None) =>
        /\ last.kind = "return"
        /\ Range(last.val) =
               {a \in LastOccurrences(last.articles) :
                    HostPathNoParams(a.url) \notin urls}

C5_Witness ==
    /\ MemoizeReturned /\ conn # None
    /\ \E a, b \in Range(last.articles) :
           /\ a.url = HTTP \o <<"h", "/", "a", "?", "q">>
           /\ a \notin Range(last.val)
           /\ b.url = HTTP \o <<"h", "/", "b">>
           /\ b \in Range(last.val)

\* C6: the collapse keeps, for each url of the batch, one article, the last
\* one of that url, and the result holds no two articles of one url.
C6_LastWins ==
    last.op = "memoize" =>
        /\ Range(last.collapsed) = LastOccurrences(last.articles)
        /\ NoSharedUrl(last.collapsed)
        /\ Range(last.val) \subseteq LastOccurrences(last.articles)
        /\ NoSharedUrl(last.val)

C6_Witness ==
    /\ MemoizeReturned
    /\ \E k, m \in DOMAIN last.articles :
           /\ k < m
           /\ last.articles[k].url = last.articles[m].url
           /\ last.articles[k].payload # last.articles[m].payload
           /\ last.articles[m] \in Range(last.val)
           /\ last.articles[k] \notin Range(last.val)

\* C7: with conn = None a call on a non-empty batch either returns the
\* collapsed batch (no rows) or raises a store-unusable condition.
C7_NullHandleHandled ==
    (last.op = "memoize" /\ conn = None /\ last.articles # <<>>) =>
        \/ last.kind = "return" /\ last.val = last.collapsed
        \/ last.kind = "raise" /\ last.cls = "StoreUnavailable"

InResult(url) == \E r \in Range(last.val) : r.url = url

\* C8: a url with '#!' and its form with '#!' replaced by
\* '?_escaped_fragment_=' are both kept or both dropped.
C8_SameDecision ==
    MemoizeReturned =>
        \A a, b \in Range(last.articles) :
            (Contains(a.url, SHEBANG)
               /\ b.url = Replace(a.url, SHEBANG, ESCAPED))
                => (InResult(a.url) <=> InResult(b.url))

C8_Witness ==
    /\ MemoizeReturned /\ conn # None
    /\ \E a, b \in Range(last.articles) :
           /\ Contains(a.url, SHEBANG)
           /\ b.url = Replace(a.url, SHEBANG, ESCAPED)
           /\ ~InResult(a.url) /\ ~InResult(b.url)

\* C9: for a str url the call returns a candidate whose url is the input
\* with '#!' replaced by '?_escaped_fragment_=', or the input when it has
\* no '#!'.
C9_Normalizes ==
    (last.op = "candidate" /\ last.text.type = "str") =>
        /\ last.kind = "return"
        /\ last.cand.url = IF Contains(last.text.chars, SHEBANG)
                           THEN Replace(last.text.chars, SHEBANG, ESCAPED)
                           ELSE last.text.chars

=============================================================================
